---------------------------- MODULE Spec2Model ----------------------------
(***************************************************************************)
(* A model of src/src/data_processor.py (class DataProcessor): the chunked *)
(* concurrent fetch, the per-record stages (validate, clean, deduplicate,  *)
(* anonymize), the batched full-refresh store, the profile and the         *)
(* pipeline that runs them in sequence.                                    *)
(*                                                                         *)
(* Python strings are sequences of one-character strings, so that the      *)
(* regular expression, split, lower, capitalize, re.sub and strptime act   *)
(* on characters.  A JSON value is a record [t, s, n, m]: t is its type    *)
(* ("str", "int", "none", "map"), s its characters, n its number and m its *)
(* mapping.  A person is a function from field names to such values.       *)
(***************************************************************************)
EXTENDS Integers, Sequences, FiniteSets, TLC

VARIABLES
    \* configuration (DataProcessor.__init__)
    total_quantity, chunk_size,
    \* fetch_data: the futures, the aggregation buffer, the caller's position
    futures, submitted, all_data, fpc,
    \* the record stages and the pipeline's locals
    raw_data, valid_data, cleaned_data, unique_data, duplicates, anonymized_data,
    now_year,
    \* store_data: the committed table, the connection's view, the id sequence
    persons, work, next_id, prior, store_at, store_fail, store_result, nwrites, ncommits,
    \* profile_data and process_pipeline
    data_profile, profile_arg, profiled, fault_at, caught, exit_code, pc

fetch_vars == <<total_quantity, chunk_size, futures, submitted, all_data, fpc>>
stage_vars == <<raw_data, valid_data, cleaned_data, unique_data, duplicates, anonymized_data, now_year>>
store_vars == <<persons, work, next_id, prior, store_at, store_fail, store_result, nwrites, ncommits>>
pipe_vars == <<data_profile, profile_arg, profiled, fault_at, caught, exit_code, pc>>
vars == <<fetch_vars, stage_vars, store_vars, pipe_vars>>

---------------------------------------------------------------------------
(* Characters and Python's string operations                               *)

DigitSeq == <<"0", "1", "2", "3", "4", "5", "6", "7", "8", "9">>
DigitChars == {DigitSeq[i] : i \in 1..10}
DigitVal(c) == (CHOOSE i \in 1..10 : DigitSeq[i] = c) - 1

\* the letters the inputs use, as <<upper, lower>> pairs
CasePairs == {<<"A", "a">>, <<"B", "b">>, <<"C", "c">>, <<"D", "d">>, <<"J", "j">>, <<"N", "n">>,
              <<"O", "o">>}

\* two characters outside ASCII, named by their code points: U+0149 (LATIN
\* SMALL LETTER N PRECEDED BY APOSTROPHE) and U+02BC (MODIFIER LETTER
\* APOSTROPHE).  Neither has a one-character upper or lower case; the title
\* case of U+0149 is the two characters U+02BC "N".
NApostrophe == "U+0149"
ModifierApostrophe == "U+02BC"

\* str.lower / str.upper on one character
lower_char(c) == IF \E p \in CasePairs : p[1] = c THEN (CHOOSE p \in CasePairs : p[1] = c)[2] ELSE c
upper_char(c) == IF \E p \in CasePairs : p[2] = c THEN (CHOOSE p \in CasePairs : p[2] = c)[1] ELSE c

\* str.lower()
py_lower(s) == [i \in 1..Len(s) |-> lower_char(s[i])]

\* the title case of one character, which may be more than one character
title_char(c) == IF c = NApostrophe THEN <<ModifierApostrophe, "N">> ELSE <<upper_char(c)>>

\* str.capitalize(): the first character title-cased, the rest lower-cased
py_capitalize(s) == IF s = <<>> THEN <<>> ELSE title_char(s[1]) \o py_lower(Tail(s))

\* re.sub(r"\D", "", s): the digits of s, in order
IsDigit(c) == c \in DigitChars
sub_non_digits(s) == SelectSeq(s, IsDigit)

\* str(n) for an integer
RECURSIVE NatStr(_)
NatStr(n) == IF n < 10 THEN <<DigitSeq[n + 1]>> ELSE NatStr(n \div 10) \o <<DigitSeq[(n % 10) + 1]>>
IntStr(n) == IF n < 0 THEN <<"-">> \o NatStr(-n) ELSE NatStr(n)

\* int(s) for a sequence of digits
RECURSIVE NumOf(_)
NumOf(s) == IF s = <<>> THEN 0 ELSE 10 * NumOf(SubSeq(s, 1, Len(s) - 1)) + DigitVal(s[Len(s)])

AllDigits(s) == \A i \in 1..Len(s) : IsDigit(s[i])

\* JSON values
EmptyMap == [k \in {} |-> 0]
S(s) == [t |-> "str", s |-> s, n |-> 0, m |-> EmptyMap]
I(n) == [t |-> "int", s |-> <<>>, n |-> n, m |-> EmptyMap]
None == [t |-> "none", s |-> <<>>, n |-> 0, m |-> EmptyMap]
M(f) == [t |-> "map", s |-> <<>>, n |-> 0, m |-> f]

\* str(v) of a scalar value
py_str(v) == CASE v.t = "str" -> v.s
               [] v.t = "int" -> IntStr(v.n)
               [] v.t = "none" -> <<"N", "o", "n", "e">>

---------------------------------------------------------------------------
(* validate_email, validate_date, validate_address                         *)

\* re.compile(r"[^@]+@[^@]+\.[^@]+").match(s): a match anchored at the start
\* only; p is the place of the "@", q the place of the "."
regex_match(s) ==
    \E p \in 2..Len(s) : \E q \in (p + 2)..(Len(s) - 1) :
        /\ \A i \in 1..(p - 1) : s[i] # "@"
        /\ s[p] = "@"
        /\ \A i \in (p + 1)..(q - 1) : s[i] # "@"
        /\ s[q] = "."
        /\ s[q + 1] # "@"

\* "True", "False", or the exception raised
validate_email(email) ==
    IF email.t # "str" THEN "TypeError"
    ELSE IF regex_match(email.s) THEN "True" ELSE "False"

IsLeap(y) == (y % 4 = 0 /\ y % 100 # 0) \/ y % 400 = 0
DaysInMonth(y, m) == IF m = 2 THEN (IF IsLeap(y) THEN 29 ELSE 28)
                     ELSE IF m \in {4, 6, 9, 11} THEN 30 ELSE 31

\* %m: 1[0-2]|0[1-9]|[1-9]
month_token(tok) == /\ Len(tok) \in {1, 2}
                    /\ AllDigits(tok)
                    /\ NumOf(tok) \in 1..12
\* %d: 3[01]|[12]\d|0[1-9]|[1-9]| [1-9]
day_token(tok) == \/ /\ Len(tok) \in {1, 2}
                     /\ AllDigits(tok)
                     /\ NumOf(tok) \in 1..31
                  \/ /\ Len(tok) = 2
                     /\ tok[1] = " "
                     /\ IsDigit(tok[2])
                     /\ tok[2] # "0"
day_value(tok) == IF tok[1] = " " THEN DigitVal(tok[2]) ELSE NumOf(tok)

\* datetime.strptime(s, "%Y-%m-%d"): the parsed <<year, month, day>>, or <<>>
\* for ValueError.  %Y is four digits; the whole string must be consumed; the
\* date must exist.  k is the place of the second "-".
strptime(s) ==
    IF /\ Len(s) >= 8
       /\ AllDigits(SubSeq(s, 1, 4))
       /\ s[5] = "-"
       /\ \E k \in 7..(Len(s) - 1) :
            /\ s[k] = "-"
            /\ month_token(SubSeq(s, 6, k - 1))
            /\ day_token(SubSeq(s, k + 1, Len(s)))
    THEN LET k == CHOOSE k \in 7..(Len(s) - 1) :
                    /\ s[k] = "-"
                    /\ month_token(SubSeq(s, 6, k - 1))
                    /\ day_token(SubSeq(s, k + 1, Len(s)))
             y == NumOf(SubSeq(s, 1, 4))
             m == NumOf(SubSeq(s, 6, k - 1))
             d == day_value(SubSeq(s, k + 1, Len(s)))
         IN IF y >= 1 /\ d <= DaysInMonth(y, m) THEN <<y, m, d>> ELSE <<>>
    ELSE <<>>

validate_date(date_string) ==
    IF date_string.t # "str" THEN "TypeError"
    ELSE IF strptime(date_string.s) # <<>> THEN "True" ELSE "False"

\* all(field in address for field in ["street", "city", "country"])
\* `field in address`: a key of a mapping, a substring of a string, TypeError
\* for a value that is no container
Substring(needle, s) ==
    \E i \in 0..(Len(s) - Len(needle)) : SubSeq(s, i + 1, i + Len(needle)) = needle
AddressFieldChars == [street |-> <<"s", "t", "r", "e", "e", "t">>,
                      city |-> <<"c", "i", "t", "y">>,
                      country |-> <<"c", "o", "u", "n", "t", "r", "y">>]
validate_address(address) ==
    CASE address.t = "map" ->
            IF {"street", "city", "country"} \subseteq DOMAIN address.m THEN "True" ELSE "False"
      [] address.t = "str" ->
            IF \A f \in {"street", "city", "country"} : Substring(AddressFieldChars[f], address.s)
            THEN "True" ELSE "False"
      [] OTHER -> "TypeError"

---------------------------------------------------------------------------
(* validate_data                                                           *)

RequiredFields == {"firstname", "lastname", "email", "birthday", "address"}

\* one iteration of validate_data's loop: "keep" (appended), "skip" (a check
\* is false) or "error" (a check raised; logged, the loop goes on).  `and`
\* evaluates left to right and stops at the first false check.
validate_item(item) ==
    IF ~(RequiredFields \subseteq DOMAIN item) THEN "skip"
    ELSE LET e == validate_email(item["email"]) IN
         IF e = "TypeError" THEN "error"
         ELSE IF e = "False" THEN "skip"
         ELSE LET d == validate_date(item["birthday"]) IN
              IF d = "TypeError" THEN "error"
              ELSE IF d = "False" THEN "skip"
              ELSE LET a == validate_address(item["address"]) IN
                   IF a = "TypeError" THEN "error"
                   ELSE IF a = "False" THEN "skip"
                   ELSE "keep"

item_is_valid(item) == validate_item(item) = "keep"

validate_data(data) == SelectSeq(data, item_is_valid)

---------------------------------------------------------------------------
(* clean_data                                                              *)

\* whether the body of clean_data's try runs to the append: item["email"],
\* item["firstname"], item["lastname"] must exist and be strings (KeyError,
\* AttributeError otherwise), and phone, when present, must be a string
\* (re.sub raises TypeError otherwise)
item_is_cleanable(item) ==
    /\ {"email", "firstname", "lastname"} \subseteq DOMAIN item
    /\ item["email"].t = "str"
    /\ item["firstname"].t = "str"
    /\ item["lastname"].t = "str"
    /\ ("phone" \in DOMAIN item => item["phone"].t = "str")

\* the cleaned copy of one item
clean_item(item) ==
    [k \in DOMAIN item |->
        CASE k = "email" -> S(py_lower(item[k].s))
          [] k \in {"firstname", "lastname"} -> S(py_capitalize(item[k].s))
          [] k = "phone" -> S(sub_non_digits(item[k].s))
          [] OTHER -> item[k]]

clean_data(data) ==
    LET kept == SelectSeq(data, item_is_cleanable)
    IN [i \in 1..Len(kept) |-> clean_item(kept[i])]

---------------------------------------------------------------------------
(* detect_duplicates                                                       *)

\* the field names of the inputs in sorted() order
SortedKeys == <<"address", "birthday", "city", "country", "email", "firstname",
                "gender", "id", "lastname", "phone", "street", "zipcode">>

\* tuple(sorted((k, str(v)) for k, v in d.items() if k not in excluded)): the
\* keys of a dict are distinct, so the pairs are ordered by key
sorted_items(d, excluded) ==
    LET keys == SelectSeq(SortedKeys, LAMBDA k : k \in (DOMAIN d) \ excluded)
    IN [i \in 1..Len(keys) |-> <<keys[i], py_str(d[keys[i]])>>]

ExcludedKeys_address_only == {"address"}

\* if k not in ["id", "address"]
ExcludedKeys == {"id", "address"}
item_tuple(item) == sorted_items(item, ExcludedKeys)
address_tuple(item) == sorted_items(item["address"].m, {})

\* whether the body of detect_duplicates' try reaches row_repr:
\* item["address"] must exist (KeyError) and have .items() (AttributeError)
canonicalizable(item) == "address" \in DOMAIN item /\ item["address"].t = "map"

row_repr(item) == item_tuple(item) \o address_tuple(item)

\* the loop of detect_duplicates after its first n items
RECURSIVE dedup_loop(_, _)
dedup_loop(data, n) ==
    IF n = 0 THEN [seen |-> {}, unique_data |-> <<>>, duplicates |-> <<>>]
    ELSE LET st == dedup_loop(data, n - 1)
             item == data[n]
         IN IF ~canonicalizable(item) THEN st
            ELSE IF row_repr(item) \in st.seen
                 THEN [st EXCEPT !.duplicates = Append(@, item)]
                 ELSE [st EXCEPT !.seen = @ \cup {row_repr(item)},
                                 !.unique_data = Append(@, item)]

detect_duplicates(data) == dedup_loop(data, Len(data))

---------------------------------------------------------------------------
(* anonymize_data and calculate_age_group                                  *)

Mask == <<"*", "*", "*", "*">>

\* f"[{age // 10 * 10}-{(age // 10 * 10) + 9}]", age = year - birth year
calculate_age_group(birthday, year) ==
    LET age == year - strptime(birthday.s)[1]
        lo == (age \div 10) * 10
    IN <<"[">> \o IntStr(lo) \o <<"-">> \o IntStr(lo + 9) \o <<"]">>

\* person["email"].split("@"): the pieces between the "@"s
RECURSIVE split_at(_)
split_at(s) ==
    IF \E i \in 1..Len(s) : s[i] = "@"
    THEN LET i == CHOOSE i \in 1..Len(s) : s[i] = "@" /\ \A j \in 1..(i - 1) : s[j] # "@"
         IN <<SubSeq(s, 1, i - 1)>> \o split_at(SubSeq(s, i + 1, Len(s)))
    ELSE <<s>>

\* whether the body of anonymize_data's try runs to the append: the birthday
\* exists and parses, the email is a string with an "@", the address is a
\* mapping with city and country
anonymizable(person) ==
    /\ "birthday" \in DOMAIN person
    /\ person["birthday"].t = "str"
    /\ strptime(person["birthday"].s) # <<>>
    /\ "email" \in DOMAIN person
    /\ person["email"].t = "str"
    /\ Len(split_at(person["email"].s)) >= 2
    /\ "address" \in DOMAIN person
    /\ person["address"].t = "map"
    /\ {"city", "country"} \subseteq DOMAIN person["address"].m

anonymize_person(person, year) ==
    LET email_parts == split_at(person["email"].s)
    IN [firstname |-> S(Mask), lastname |-> S(Mask),
        email |-> S(Mask \o <<"@">> \o email_parts[2]),
        phone |-> S(Mask), birthday |-> S(Mask), gender |-> S(Mask),
        street |-> S(Mask), streetName |-> S(Mask), buildingNumber |-> S(Mask),
        city |-> person["address"].m["city"],
        zipcode |-> S(Mask),
        country |-> person["address"].m["country"],
        county_code |-> S(Mask), latitude |-> S(Mask), longitude |-> S(Mask),
        website |-> S(Mask), image |-> S(Mask),
        age_group |-> S(calculate_age_group(person["birthday"], year)),
        email_provider |-> S(email_parts[2])]

anonymize_data(data, year) ==
    LET kept == SelectSeq(data, anonymizable)
    IN [i \in 1..Len(kept) |-> anonymize_person(kept[i], year)]

---------------------------------------------------------------------------
(* The inputs of the record stages                                         *)

MaxLen == 3

Put(item, f, v) == [k \in (DOMAIN item) \cup {f} |-> IF k = f THEN v ELSE item[k]]
Drop(item, f) == [k \in (DOMAIN item) \ {f} |-> item[k]]

IsoBirthday == <<"1", "9", "9", "0", "-", "0", "1", "-", "0", "5">>
ShortBirthday == <<"1", "9", "9", "0", "-", "1", "-", "5">>
Address1 == [street |-> S(<<"5">>), city |-> S(<<"B">>), country |-> S(<<"C">>)]

Person1 == [id |-> I(1),
            firstname |-> S(<<"j", "o">>),
            lastname |-> S(<<"D", "O">>),
            email |-> S(<<"A", "@", "b", ".", "c">>),
            birthday |-> S(IsoBirthday),
            phone |-> S(<<"+", "1", "-", "2">>),
            address |-> M(Address1)]

Person2 == [id |-> I(2),
            firstname |-> S(<<"A", "b">>),
            lastname |-> S(<<"C", "o">>),
            email |-> S(<<"d", "@", "c", ".", "o">>),
            birthday |-> S(<<"1", "9", "8", "5", "-", "1", "2", "-", "3", "1">>),
            address |-> M([street |-> S(<<"b">>), city |-> S(<<"D">>), country |-> S(<<"C">>)])]

Person3 == Put(Put(Person2, "id", I(3)), "email", S(<<"o", "@", "c", ".", "o">>))

\* the records a fetched batch is drawn from: two well-formed persons, a copy
\* that differs only in id, records with one field missing or malformed, a
\* name that begins with U+0149, and a street that is the number 5 where
\* Person1 has the string "5"
RecordPool ==
    { Person1, Person2,
      Put(Person1, "id", I(2)),
      Drop(Person1, "firstname"),
      Put(Person1, "email", I(5)),
      Put(Person1, "email", S(<<"a", "b">>)),
      Put(Person1, "email", S(<<"a", "@", "b", ".", "c", "@", "d">>)),
      Put(Person1, "birthday", S(ShortBirthday)),
      Put(Person1, "birthday", S(<<"1", "9", "9", "0", "-", "0", "2", "-", "3", "0">>)),
      Put(Person1, "birthday", I(1990)),
      Put(Person1, "address", I(7)),
      Put(Person1, "address", M(Drop(Address1, "city"))),
      Put(Person1, "phone", I(12)),
      Put(Person1, "firstname", S(<<NApostrophe, "o">>)),
      Put(Person1, "address", M(Put(Address1, "street", I(5)))) }

SeqsUpTo(pool, n) == UNION {[1..k -> pool] : k \in 0..n}

Years == {2026}

\* the values of the variables a specification does not use
FetchIdle ==
    /\ total_quantity = 0
    /\ chunk_size = 1
    /\ futures = <<>>
    /\ submitted = 0
    /\ all_data = <<>>
    /\ fpc = "idle"

StoreIdle ==
    /\ persons = <<>>
    /\ work = <<>>
    /\ next_id = 1
    /\ prior = <<>>
    /\ store_at = "idle"
    /\ store_fail = "none"
    /\ store_result = "none"
    /\ nwrites = 0
    /\ ncommits = 0

PipeIdle ==
    /\ data_profile = EmptyMap
    /\ profile_arg = <<>>
    /\ profiled = FALSE
    /\ fault_at = "none"
    /\ caught = FALSE
    /\ exit_code = -1

StagesEmpty ==
    /\ valid_data = <<>>
    /\ cleaned_data = <<>>
    /\ unique_data = <<>>
    /\ duplicates = <<>>
    /\ anonymized_data = <<>>

---------------------------------------------------------------------------
(* SpecStages: each record stage applied to a batch, alone and in the      *)
(* pipeline's order                                                        *)

InitStages ==
    /\ raw_data \in SeqsUpTo(RecordPool, MaxLen)
    /\ now_year \in Years
    /\ StagesEmpty
    /\ FetchIdle /\ StoreIdle /\ PipeIdle
    /\ pc = "input"

StageValidate ==
    /\ pc = "input"
    /\ valid_data' = validate_data(raw_data)
    /\ pc' = "validated"
    /\ UNCHANGED <<raw_data, cleaned_data, unique_data, duplicates, anonymized_data, now_year>>
    /\ UNCHANGED <<fetch_vars, store_vars, data_profile, profile_arg, profiled, fault_at, caught, exit_code>>

StageClean ==
    /\ pc = "validated"
    /\ cleaned_data' = clean_data(valid_data)
    /\ pc' = "cleaned"
    /\ UNCHANGED <<raw_data, valid_data, unique_data, duplicates, anonymized_data, now_year>>
    /\ UNCHANGED <<fetch_vars, store_vars, data_profile, profile_arg, profiled, fault_at, caught, exit_code>>

StageDeduplicate ==
    /\ pc = "cleaned"
    /\ unique_data' = detect_duplicates(cleaned_data).unique_data
    /\ duplicates' = detect_duplicates(cleaned_data).duplicates
    /\ pc' = "deduplicated"
    /\ UNCHANGED <<raw_data, valid_data, cleaned_data, anonymized_data, now_year>>
    /\ UNCHANGED <<fetch_vars, store_vars, data_profile, profile_arg, profiled, fault_at, caught, exit_code>>

StageAnonymize ==
    /\ pc = "deduplicated"
    /\ anonymized_data' = anonymize_data(unique_data, now_year)
    /\ pc' = "anonymized"
    /\ UNCHANGED <<raw_data, valid_data, cleaned_data, unique_data, duplicates, now_year>>
    /\ UNCHANGED <<fetch_vars, store_vars, data_profile, profile_arg, profiled, fault_at, caught, exit_code>>

\* clean_data called on its own output
StageCleanAgain ==
    /\ pc = "cleaned"
    /\ cleaned_data' = clean_data(cleaned_data)
    /\ pc' = "recleaned"
    /\ UNCHANGED <<raw_data, valid_data, unique_data, duplicates, anonymized_data, now_year>>
    /\ UNCHANGED <<fetch_vars, store_vars, data_profile, profile_arg, profiled, fault_at, caught, exit_code>>

\* a stage called on the batch itself, as the unit tests call it
ApplyClean ==
    /\ pc = "input"
    /\ cleaned_data' = clean_data(raw_data)
    /\ pc' = "clean_applied"
    /\ UNCHANGED <<raw_data, valid_data, unique_data, duplicates, anonymized_data, now_year>>
    /\ UNCHANGED <<fetch_vars, store_vars, data_profile, profile_arg, profiled, fault_at, caught, exit_code>>

ApplyDeduplicate ==
    /\ pc = "input"
    /\ unique_data' = detect_duplicates(raw_data).unique_data
    /\ duplicates' = detect_duplicates(raw_data).duplicates
    /\ pc' = "dedup_applied"
    /\ UNCHANGED <<raw_data, valid_data, cleaned_data, anonymized_data, now_year>>
    /\ UNCHANGED <<fetch_vars, store_vars, data_profile, profile_arg, profiled, fault_at, caught, exit_code>>

ApplyAnonymize ==
    /\ pc = "input"
    /\ anonymized_data' = anonymize_data(raw_data, now_year)
    /\ pc' = "anonymize_applied"
    /\ UNCHANGED <<raw_data, valid_data, cleaned_data, unique_data, duplicates, now_year>>
    /\ UNCHANGED <<fetch_vars, store_vars, data_profile, profile_arg, profiled, fault_at, caught, exit_code>>

NextStages ==
    \/ StageValidate
    \/ StageClean
    \/ StageCleanAgain
    \/ StageDeduplicate
    \/ StageAnonymize
    \/ ApplyClean
    \/ ApplyDeduplicate
    \/ ApplyAnonymize

SpecStages == InitStages /\ [][NextStages]_vars

---------------------------------------------------------------------------
(* store_data: the effects of its statements on the persons table          *)

delete_rows_skipped(rows) == rows

\* DELETE FROM persons
delete_rows(rows) == <<>>

\* df.iloc[i : i + chunk_size] for the batch that starts after `done` rows
batch_of(data, done, size) ==
    SubSeq(data, done + 1, IF done + size < Len(data) THEN done + size ELSE Len(data))

\* chunk.to_sql("persons", conn, if_exists="append", index=False): each record
\* becomes a row; the store numbers the rows (INTEGER PRIMARY KEY autoincrement)
append_rows(rows, batch, first_id) ==
    rows \o [i \in 1..Len(batch) |-> [id |-> first_id + i - 1, rec |-> batch[i]]]

rollback_keeps_uncommitted(committed, uncommitted) == uncommitted

\* what the table holds after a statement failed: the changes the connection
\* had not committed are rolled back (to_sql runs its inserts in one
\* transaction and rolls it back on an error; the connection store_data
\* leaves open is rolled back when it is closed)
rollback(committed, uncommitted) == committed

store_catches_nothing == FALSE

\* `except Exception as e: logger.error(...)` around the whole body
store_catches == TRUE

---------------------------------------------------------------------------
(* profile_data                                                            *)

TopN == 5

column(data, f) == [i \in 1..Len(data) |-> data[i][f]]

\* Series.nunique(): the distinct values, nulls left out
nunique(col) == Cardinality({col[i] : i \in {j \in 1..Len(col) : col[j].t # "none"}})

\* Series.value_counts(): value -> count, nulls left out
value_counts(col) ==
    LET vals == {col[i] : i \in {j \in 1..Len(col) : col[j].t # "none"}}
    IN [v \in vals |-> Cardinality({i \in 1..Len(col) : col[i] = v})]

\* .head(n) of value_counts(): the n most frequent values, equal counts in the
\* order the values first occur
head_of_counts(col, n) ==
    LET counts == value_counts(col)
        first(v) == CHOOSE i \in 1..Len(col) : col[i] = v /\ \A j \in 1..(i - 1) : col[j] # v
        before(w, v) == counts[w] > counts[v] \/ (counts[w] = counts[v] /\ first(w) < first(v))
        top == {v \in DOMAIN counts : Cardinality({w \in DOMAIN counts : before(w, v)}) < n}
    IN [v \in top |-> counts[v]]

ProfileColumns == {"city", "country", "age_group", "email_provider"}

\* the body of profile_data's try fails with KeyError when the frame has no
\* rows (it then has no columns either), and with TypeError when a counted
\* value is unhashable; the handler returns {}
profile_fails(data) ==
    \/ data = <<>>
    \/ \E i \in 1..Len(data) : \E f \in ProfileColumns : data[i][f].t = "map"

profile_data(data) ==
    IF profile_fails(data) THEN EmptyMap
    ELSE [total_records |-> Len(data),
          unique_values |-> [f \in ProfileColumns |-> nunique(column(data, f))],
          most_common_countries |-> head_of_counts(column(data, "country"), TopN),
          age_group_distribution |-> value_counts(column(data, "age_group")),
          top_email_providers |-> head_of_counts(column(data, "email_provider"), TopN)]

---------------------------------------------------------------------------
(* Spec: process_pipeline, from the batch fetch_data returned to main's    *)
(* return, with store_data run statement by statement                      *)

MaxBatch == 3
MaxChunkSize == 2
MaxPrior == 1

\* the records of a fetched batch: three persons, a copy under another id,
\* and a record whose phone is a number, which clean_data drops
PipelinePool ==
    { Person1, Person2, Person3,
      Put(Person1, "id", I(2)),
      Put(Person2, "phone", I(12)) }

\* a row of an earlier run
OldRecord == anonymize_person(Person2, 2025)
PriorTable(k) == [i \in 1..k |-> [id |-> i, rec |-> OldRecord]]

\* the places where an exception no stage handles can arise (MemoryError and
\* the like outside the per-record try blocks; json.dumps in the log line)
FaultStages == {"fetch", "validate", "clean", "dedup", "anonymize", "log"}

Init ==
    /\ chunk_size \in 1..MaxChunkSize
    /\ total_quantity = 0
    /\ futures = <<>>
    /\ submitted = 0
    /\ all_data \in SeqsUpTo(PipelinePool, MaxBatch)
    /\ fpc = "returned"
    /\ raw_data = <<>>
    /\ StagesEmpty
    /\ now_year \in Years
    /\ \E k \in 0..MaxPrior :
        /\ prior = PriorTable(k)
        /\ persons = PriorTable(k)
        /\ next_id = k + 1
    /\ work = <<>>
    /\ store_at = "idle"
    /\ store_fail = "none"
    /\ store_result = "none"
    /\ nwrites = 0
    /\ ncommits = 0
    /\ data_profile = EmptyMap
    /\ profile_arg = <<>>
    /\ profiled = FALSE
    /\ fault_at \in FaultStages \cup {"none"}
    /\ caught = FALSE
    /\ exit_code = -1
    /\ pc = "fetch"

\* `except Exception as e` of process_pipeline: the stage at pc raises, the
\* handler logs, and the method returns
PipelineCatch ==
    /\ pc \in FaultStages
    /\ fault_at = pc
    /\ caught' = TRUE
    /\ pc' = "return"
    /\ UNCHANGED <<fetch_vars, stage_vars, store_vars, data_profile, profile_arg, profiled,
                   fault_at, exit_code>>

PipelineFetch ==
    /\ pc = "fetch" /\ fault_at # "fetch"
    /\ raw_data' = all_data
    /\ pc' = "validate"
    /\ UNCHANGED <<valid_data, cleaned_data, unique_data, duplicates, anonymized_data, now_year>>
    /\ UNCHANGED <<fetch_vars, store_vars, data_profile, profile_arg, profiled, fault_at, caught, exit_code>>

PipelineValidate ==
    /\ pc = "validate" /\ fault_at # "validate"
    /\ valid_data' = validate_data(raw_data)
    /\ pc' = "clean"
    /\ UNCHANGED <<raw_data, cleaned_data, unique_data, duplicates, anonymized_data, now_year>>
    /\ UNCHANGED <<fetch_vars, store_vars, data_profile, profile_arg, profiled, fault_at, caught, exit_code>>

PipelineClean ==
    /\ pc = "clean" /\ fault_at # "clean"
    /\ cleaned_data' = clean_data(valid_data)
    /\ pc' = "dedup"
    /\ UNCHANGED <<raw_data, valid_data, unique_data, duplicates, anonymized_data, now_year>>
    /\ UNCHANGED <<fetch_vars, store_vars, data_profile, profile_arg, profiled, fault_at, caught, exit_code>>

PipelineDeduplicate ==
    /\ pc = "dedup" /\ fault_at # "dedup"
    /\ unique_data' = detect_duplicates(cleaned_data).unique_data
    /\ duplicates' = detect_duplicates(cleaned_data).duplicates
    /\ pc' = "anonymize"
    /\ UNCHANGED <<raw_data, valid_data, cleaned_data, anonymized_data, now_year>>
    /\ UNCHANGED <<fetch_vars, store_vars, data_profile, profile_arg, profiled, fault_at, caught, exit_code>>

PipelineAnonymize ==
    /\ pc = "anonymize" /\ fault_at # "anonymize"
    /\ anonymized_data' = anonymize_data(unique_data, now_year)
    /\ pc' = "store"
    /\ store_at' = "connect"
    /\ UNCHANGED <<raw_data, valid_data, cleaned_data, unique_data, duplicates, now_year>>
    /\ UNCHANGED <<persons, work, next_id, prior, store_fail, store_result, nwrites, ncommits>>
    /\ UNCHANGED <<fetch_vars, data_profile, profile_arg, profiled, fault_at, caught, exit_code>>

\* sqlite3.connect(self.db_path); conn.cursor()
StoreConnect ==
    /\ pc = "store" /\ store_at = "connect"
    /\ work' = persons
    /\ store_at' = "create"
    /\ UNCHANGED <<persons, next_id, prior, store_fail, store_result, nwrites, ncommits>>
    /\ UNCHANGED <<fetch_vars, stage_vars, pipe_vars>>

\* CREATE TABLE IF NOT EXISTS persons (...)
StoreCreateTable ==
    /\ pc = "store" /\ store_at = "create"
    /\ store_at' = "delete"
    /\ UNCHANGED <<persons, work, next_id, prior, store_fail, store_result, nwrites, ncommits>>
    /\ UNCHANGED <<fetch_vars, stage_vars, pipe_vars>>

\* cursor.execute("DELETE FROM persons")
StoreDelete ==
    /\ pc = "store" /\ store_at = "delete"
    /\ work' = delete_rows(work)
    /\ store_at' = "commit"
    /\ UNCHANGED <<persons, next_id, prior, store_fail, store_result, nwrites, ncommits>>
    /\ UNCHANGED <<fetch_vars, stage_vars, pipe_vars>>

\* conn.commit() after the delete
StoreCommit ==
    /\ pc = "store" /\ store_at = "commit"
    /\ persons' = work
    /\ ncommits' = ncommits + 1
    /\ store_at' = "write"
    /\ UNCHANGED <<work, next_id, prior, store_fail, store_result, nwrites>>
    /\ UNCHANGED <<fetch_vars, stage_vars, pipe_vars>>

\* one turn of the batch loop: chunk = df.iloc[i : i + chunk_size];
\* chunk.to_sql(...); conn.commit()
StoreBatch ==
    /\ pc = "store" /\ store_at = "write"
    /\ nwrites * chunk_size < Len(anonymized_data)
    /\ LET batch == batch_of(anonymized_data, nwrites * chunk_size, chunk_size)
       IN /\ work' = append_rows(work, batch, next_id)
          /\ persons' = append_rows(work, batch, next_id)
          /\ next_id' = next_id + Len(batch)
    /\ nwrites' = nwrites + 1
    /\ ncommits' = ncommits + 1
    /\ UNCHANGED <<prior, store_at, store_fail, store_result>>
    /\ UNCHANGED <<fetch_vars, stage_vars, pipe_vars>>

\* the loop is over: conn.close(), the success log line, return
StoreClose ==
    /\ pc = "store" /\ store_at = "write"
    /\ nwrites * chunk_size >= Len(anonymized_data)
    /\ store_at' = "closed"
    /\ store_result' = "ok"
    /\ pc' = "profile"
    /\ UNCHANGED <<persons, work, next_id, prior, store_fail, nwrites, ncommits>>
    /\ UNCHANGED <<fetch_vars, stage_vars, data_profile, profile_arg, profiled, fault_at, caught, exit_code>>

\* the statement at store_at raises (the store is unavailable, a write fails):
\* what the connection had not committed is lost; the handler of store_data
\* logs and store_data returns.  A failing to_sql may have inserted the
\* first rows of its batch.
StoreFail ==
    /\ pc = "store" /\ store_at \in {"connect", "create", "delete", "commit", "write"}
    /\ store_at = "write" => nwrites * chunk_size < Len(anonymized_data)
    /\ store_fail' = store_at
    /\ store_at' = "failed"
    /\ \E inserted \in 0..chunk_size :
        /\ inserted > 0 =>
              /\ store_at = "write"
              /\ inserted < Len(batch_of(anonymized_data, nwrites * chunk_size, chunk_size))
        /\ LET batch == batch_of(anonymized_data, nwrites * chunk_size, chunk_size)
               uncommitted == IF store_at = "connect" THEN persons
                              ELSE append_rows(work, SubSeq(batch, 1, inserted), next_id)
           IN /\ persons' = rollback(persons, uncommitted)
              /\ work' = rollback(persons, uncommitted)
    /\ IF store_catches
       THEN /\ store_result' = "failed"
            /\ pc' = "profile"
            /\ UNCHANGED caught
       ELSE /\ store_result' = "raised"
            /\ pc' = "return"
            /\ caught' = TRUE
    /\ UNCHANGED <<next_id, prior, nwrites, ncommits>>
    /\ UNCHANGED <<fetch_vars, stage_vars, data_profile, profile_arg, profiled, fault_at, exit_code>>

PipelineProfile ==
    /\ pc = "profile"
    /\ profile_arg' = anonymized_data
    /\ data_profile' = profile_data(anonymized_data)
    /\ profiled' = TRUE
    /\ pc' = "log"
    /\ UNCHANGED <<fetch_vars, stage_vars, store_vars, fault_at, caught, exit_code>>

\* logger.info("Data Profile: %s", json.dumps(data_profile, indent=2)) and the
\* duplicates line
PipelineLog ==
    /\ pc = "log" /\ fault_at # "log"
    /\ pc' = "return"
    /\ UNCHANGED <<fetch_vars, stage_vars, store_vars, data_profile, profile_arg, profiled,
                   fault_at, caught, exit_code>>

\* process_pipeline returns None; main returns; the interpreter exits with 0
MainReturn ==
    /\ pc = "return"
    /\ exit_code' = 0
    /\ pc' = "done"
    /\ UNCHANGED <<fetch_vars, stage_vars, store_vars, data_profile, profile_arg, profiled,
                   fault_at, caught>>

Next ==
    \/ PipelineCatch
    \/ PipelineFetch
    \/ PipelineValidate
    \/ PipelineClean
    \/ PipelineDeduplicate
    \/ PipelineAnonymize
    \/ StoreConnect
    \/ StoreCreateTable
    \/ StoreDelete
    \/ StoreCommit
    \/ StoreBatch
    \/ StoreClose
    \/ StoreFail
    \/ PipelineProfile
    \/ PipelineLog
    \/ MainReturn

Spec == Init /\ [][Next]_vars

---------------------------------------------------------------------------
(* SpecFetch: fetch_data and fetch_data_chunk.  The caller submits one     *)
(* future per chunk, the pool's workers run them, each request is retried  *)
(* by the session's adapter, and the caller extends all_data with each     *)
(* finished future's result.                                               *)

MaxTotal == 2
MaxFetchChunk == 2

\* create_retry_session(retries=3): Retry(total=retries, ...)
Retries == 3
\* ThreadPoolExecutor(max_workers=5)
max_workers == 5

num_chunks_floor(total, size) == total \div size

\* range((total_quantity + chunk_size - 1) // chunk_size)
num_chunks(total, size) == (total + size - 1) \div size

\* "_quantity": min(chunk_size, total_quantity - i * chunk_size)
chunk_quantity(total, size, i) == IF size < total - i * size THEN size ELSE total - i * size

\* what the source serves for chunk c: `quantity` records
served(c, quantity) == [k \in 1..quantity |-> [chunk |-> c, pos |-> k, junk |-> FALSE]]
\* iterating a `data` that is the string "xy" yields its characters
junk_items(c) == [k \in 1..2 |-> [chunk |-> c, pos |-> k, junk |-> TRUE]]

\* how a request can end once the adapter stops retrying:
\*   ok             200, {"data": [records]}
\*   retry_error    a status of the forcelist on the last retry (RetryError)
\*   connect_error  a connection failure on the last retry (ConnectionError)
\*   http_error     a status outside the forcelist; raise_for_status raises
\*   not_json       200, a body that is no JSON: response.json() raises
\*                  JSONDecodeError, a RequestException from requests 2.27 on
\*                  and a plain ValueError before
\*   no_data_key    200, a JSON object without "data": KeyError
\*   not_object     200, a JSON array or scalar: TypeError
\*   data_string    200, {"data": "xy"}: the string is returned as it is
\*   data_null      200, {"data": null}: None is returned
Transient == {"retry_error", "connect_error"}
Outcomes == {"ok", "http_error", "not_json", "no_data_key", "not_object",
             "data_string", "data_null"} \cup Transient

\* the except clause of fetch_data_chunk: requests.RequestException only
chunk_catches(outcome, json_error_is_request_exception) ==
    \/ outcome \in {"retry_error", "connect_error", "http_error"}
    \/ outcome = "not_json" /\ json_error_is_request_exception

\* fetch_data_chunk for chunk c: what the future holds when the call ends.
\* raised: an exception left the function; kind and items: the value returned
fetch_data_chunk(c, quantity, outcome, json_error_is_request_exception) ==
    CASE outcome = "ok" ->
            [raised |-> FALSE, kind |-> "list", items |-> served(c, quantity)]
      [] outcome = "data_string" ->
            [raised |-> FALSE, kind |-> "str", items |-> junk_items(c)]
      [] outcome = "data_null" ->
            [raised |-> FALSE, kind |-> "none", items |-> <<>>]
      [] OTHER ->
            IF chunk_catches(outcome, json_error_is_request_exception)
            THEN [raised |-> FALSE, kind |-> "list", items |-> <<>>]
            ELSE [raised |-> TRUE, kind |-> "none", items |-> <<>>]

\* the body of the as_completed loop: data = future.result();
\* all_data.extend(data), inside try / except Exception.  extend takes the
\* elements of a list or of a string and raises TypeError on None.
extended(buffer, result) ==
    IF result.raised \/ result.kind = "none" THEN buffer ELSE buffer \o result.items

NoResult == [raised |-> FALSE, kind |-> "none", items |-> <<>>]

InitFetch ==
    /\ total_quantity \in 0..MaxTotal
    /\ chunk_size \in 1..MaxFetchChunk
    /\ futures = <<>>
    /\ submitted = 0
    /\ all_data = <<>>
    /\ fpc = "submit"
    /\ raw_data = <<>>
    /\ StagesEmpty
    /\ now_year \in Years
    /\ StoreIdle /\ PipeIdle
    /\ pc = "fetch"

NotFetch == <<stage_vars, store_vars, pipe_vars>>

Running == {i \in 1..Len(futures) : futures[i].state = "running"}
Pending == {i \in 1..Len(futures) : futures[i].state = "pending"}

\* executor.submit(self.fetch_data_chunk, {"_quantity": ...}) for the next i
Submit ==
    /\ fpc = "submit"
    /\ submitted < num_chunks(total_quantity, chunk_size)
    /\ futures' = Append(futures,
            [quantity |-> chunk_quantity(total_quantity, chunk_size, submitted),
             state |-> "pending", attempt |-> 0, outcome |-> "none",
             result |-> NoResult, collected |-> FALSE])
    /\ submitted' = submitted + 1
    /\ UNCHANGED <<total_quantity, chunk_size, all_data, fpc, NotFetch>>

\* the comprehension is done; the caller enters as_completed
AllSubmitted ==
    /\ fpc = "submit"
    /\ submitted = num_chunks(total_quantity, chunk_size)
    /\ fpc' = "collect"
    /\ UNCHANGED <<total_quantity, chunk_size, futures, submitted, all_data, NotFetch>>

\* a free worker takes the oldest queued work item
WorkerStart(i) ==
    /\ i \in Pending
    /\ \A j \in Pending : i <= j
    /\ Cardinality(Running) < max_workers
    /\ futures' = [futures EXCEPT ![i].state = "running"]
    /\ UNCHANGED <<total_quantity, chunk_size, submitted, all_data, fpc, NotFetch>>

\* a transient failure with retries left: the adapter backs off and retries
RequestRetry(i) ==
    /\ i \in Running
    /\ futures[i].attempt < Retries
    /\ futures' = [futures EXCEPT ![i].attempt = @ + 1]
    /\ UNCHANGED <<total_quantity, chunk_size, submitted, all_data, fpc, NotFetch>>

\* the request ends and fetch_data_chunk returns or raises; a transient
\* failure ends it only when no retry is left
ChunkDone(i) ==
    /\ i \in Running
    /\ \E outcome \in Outcomes : \E json_error_is_request_exception \in BOOLEAN :
        /\ outcome \in Transient => futures[i].attempt = Retries
        /\ outcome # "not_json" => json_error_is_request_exception
        /\ futures' = [futures EXCEPT
                ![i].state = "finished",
                ![i].outcome = outcome,
                ![i].result = fetch_data_chunk(i, futures[i].quantity, outcome,
                                               json_error_is_request_exception)]
    /\ UNCHANGED <<total_quantity, chunk_size, submitted, all_data, fpc, NotFetch>>

\* as_completed yields a finished future; the loop body runs
Collect(i) ==
    /\ fpc = "collect"
    /\ i \in 1..Len(futures)
    /\ futures[i].state = "finished"
    /\ ~futures[i].collected
    /\ all_data' = extended(all_data, futures[i].result)
    /\ futures' = [futures EXCEPT ![i].collected = TRUE]
    /\ UNCHANGED <<total_quantity, chunk_size, submitted, fpc, NotFetch>>

as_completed_exhausted_at_failure ==
    \/ \A i \in 1..Len(futures) : futures[i].collected
    \/ \E i \in 1..Len(futures) : futures[i].collected /\ futures[i].outcome # "ok"

\* `for future in as_completed(future_to_params)` ends when every future of
\* the mapping has been yielded; an exception of a future is caught inside
\* the loop body, so no iteration ends the loop early
as_completed_exhausted == \A i \in 1..Len(futures) : futures[i].collected

\* as_completed is exhausted, the executor shuts down, fetch_data returns
FetchReturn ==
    /\ fpc = "collect"
    /\ as_completed_exhausted
    /\ fpc' = "returned"
    /\ UNCHANGED <<total_quantity, chunk_size, futures, submitted, all_data, NotFetch>>

NextFetch ==
    \/ Submit
    \/ AllSubmitted
    \/ \E i \in 1..Len(futures) : WorkerStart(i)
    \/ \E i \in 1..Len(futures) : RequestRetry(i)
    \/ \E i \in 1..Len(futures) : ChunkDone(i)
    \/ \E i \in 1..Len(futures) : Collect(i)
    \/ FetchReturn

SpecFetch == InitFetch /\ [][NextFetch]_vars

\* Scheduling: the calling thread runs on (Submit, AllSubmitted, Collect,
\* FetchReturn), a free worker thread takes queued work (WorkerStart), and
\* every request ends: the adapter retries at most Retries times and each
\* attempt has a timeout or an answer (ChunkDone).
FetchFairness ==
    /\ WF_vars(Submit)
    /\ WF_vars(AllSubmitted)
    /\ WF_vars(FetchReturn)
    /\ \A i \in 1..MaxTotal : WF_vars(WorkerStart(i))
    /\ \A i \in 1..MaxTotal : WF_vars(ChunkDone(i))
    /\ \A i \in 1..MaxTotal : WF_vars(Collect(i))

SpecFetchLive == InitFetch /\ [][NextFetch]_vars /\ FetchFairness

---------------------------------------------------------------------------
(* SpecDispatch: the comprehension of fetch_data that partitions           *)
(* total_quantity into chunk requests, for a wider range of configurations *)

MaxDispatchTotal == 9
MaxDispatchChunk == 4

InitDispatch ==
    /\ total_quantity \in 0..MaxDispatchTotal
    /\ chunk_size \in 1..MaxDispatchChunk
    /\ futures = <<>>
    /\ submitted = 0
    /\ all_data = <<>>
    /\ fpc = "submit"
    /\ raw_data = <<>>
    /\ StagesEmpty
    /\ now_year \in Years
    /\ StoreIdle /\ PipeIdle
    /\ pc = "fetch"

NextDispatch ==
    \/ Submit
    \/ AllSubmitted

SpecDispatch == InitDispatch /\ [][NextDispatch]_vars

---------------------------------------------------------------------------
(* Claims about the record stages (checked under SpecStages)               *)

Range(seq) == {seq[i] : i \in 1..Len(seq)}

\* the subsequence of seq at the places in idx, in order
RECURSIVE SubseqAt(_, _, _)
SubseqAt(seq, idx, n) ==
    IF n = 0 THEN <<>>
    ELSE IF n \in idx THEN Append(SubseqAt(seq, idx, n - 1), seq[n])
    ELSE SubseqAt(seq, idx, n - 1)

\* the input detect_duplicates was called on, once it has returned
DedupReturned == pc \in {"deduplicated", "dedup_applied"}
DedupInput == IF pc = "dedup_applied" THEN raw_data ELSE cleaned_data

\* the places of the input whose key no earlier record has
FirstOccurrences(data) ==
    {i \in 1..Len(data) : \A j \in 1..(i - 1) : row_repr(data[j]) # row_repr(data[i])}

\* C4: detect_duplicates, on canonicalizable records, puts a record in unique
\* iff no earlier record has an equal canonical key and in duplicates
\* otherwise; both outputs keep input order, every record is in exactly one,
\* no two unique records share a key, and records that differ only in id are
\* duplicates of each other.
C4_FirstOccurrenceWins ==
    (DedupReturned /\ \A i \in 1..Len(DedupInput) : canonicalizable(DedupInput[i])) =>
        LET data == DedupInput
            first == FirstOccurrences(data)
        IN /\ unique_data = SubseqAt(data, first, Len(data))
           /\ duplicates = SubseqAt(data, (1..Len(data)) \ first, Len(data))
           /\ Len(unique_data) + Len(duplicates) = Len(data)
           /\ \A i, j \in 1..Len(unique_data) :
                i # j => row_repr(unique_data[i]) # row_repr(unique_data[j])
           /\ \A i, j \in 1..Len(data) :
                (i < j /\ Drop(data[i], "id") = Drop(data[j], "id")) =>
                    /\ j \notin first
                    /\ data[j] \in Range(duplicates)

\* a batch of three canonicalizable records: a person, its copy under another
\* id, and a different person; two are unique and the copy is the duplicate
C4_Witness ==
    /\ pc = "dedup_applied"
    /\ Len(raw_data) = 3
    /\ \A i \in 1..3 : canonicalizable(raw_data[i])
    /\ raw_data[1] # raw_data[2]
    /\ Drop(raw_data[1], "id") = Drop(raw_data[2], "id")
    /\ Len(unique_data) = 2
    /\ duplicates = <<raw_data[2]>>

\* local@domain.tld: one "@", something before it, and after it a "." with
\* something on both sides
WellFormedEmail(v) ==
    /\ v.t = "str"
    /\ Cardinality({i \in 1..Len(v.s) : v.s[i] = "@"}) = 1
    /\ \E p \in 2..Len(v.s) : \E q \in (p + 2)..(Len(v.s) - 1) : v.s[p] = "@" /\ v.s[q] = "."

\* YYYY-MM-DD: four, two and two digits, and a day that exists
IsoDate(v) ==
    /\ v.t = "str"
    /\ Len(v.s) = 10
    /\ \A i \in {1, 2, 3, 4, 6, 7, 9, 10} : IsDigit(v.s[i])
    /\ v.s[5] = "-" /\ v.s[8] = "-"
    /\ NumOf(SubSeq(v.s, 1, 4)) >= 1
    /\ NumOf(SubSeq(v.s, 6, 7)) \in 1..12
    /\ NumOf(SubSeq(v.s, 9, 10)) \in
            1..DaysInMonth(NumOf(SubSeq(v.s, 1, 4)), NumOf(SubSeq(v.s, 6, 7)))

HasAddressFields(v) == v.t = "map" /\ {"street", "city", "country"} \subseteq DOMAIN v.m

ValidByTheSpec(item) ==
    /\ {"firstname", "lastname", "email", "birthday", "address"} \subseteq DOMAIN item
    /\ WellFormedEmail(item["email"])
    /\ IsoDate(item["birthday"])
    /\ HasAddressFields(item["address"])

\* C5: validate_data returns exactly the records, in input order and
\* unchanged, that have the five required fields, a well-formed email, an ISO
\* YYYY-MM-DD birthday and an address with street, city and country; a record
\* whose check raises is dropped and the later records are still examined.
C5_ValidateKeepsExactlyTheValid ==
    pc = "validated" => valid_data = SelectSeq(raw_data, ValidByTheSpec)

\* the whole of s after its first "@"
AfterFirstAt(s) ==
    LET p == CHOOSE p \in 1..Len(s) : s[p] = "@" /\ \A j \in 1..(p - 1) : s[j] # "@"
    IN SubSeq(s, p + 1, Len(s))

SensitiveFields == {"firstname", "lastname", "email", "phone", "birthday"}

\* C6: for every record anonymize_data keeps (here: records that passed
\* validate_data and clean_data), no field of the anonymized record holds the
\* original firstname, lastname, email, phone or birthday; email_provider is
\* the whole substring after "@" of the original email; city and country are
\* the address's, verbatim.
C6_AnonymizedHidesAndKeeps ==
    pc = "anonymized" =>
        LET kept == SelectSeq(unique_data, anonymizable)
        IN /\ Len(anonymized_data) = Len(kept)
           /\ \A i \in 1..Len(kept) :
                LET person == kept[i]
                    out == anonymized_data[i]
                IN /\ \A f \in SensitiveFields \cap DOMAIN person :
                        \A g \in DOMAIN out : out[g] # person[f]
                   /\ out["email_provider"] = S(AfterFirstAt(person["email"].s))
                   /\ out["city"] = person["address"].m["city"]
                   /\ out["country"] = person["address"].m["country"]

---------------------------------------------------------------------------
(* Claims about store_data, profile_data and process_pipeline (checked     *)
(* under Spec)                                                             *)

Records(rows) == [i \in 1..Len(rows) |-> rows[i].rec]
OldRows(rows) == {i \in 1..Len(rows) : rows[i].id <= Len(prior)}
NewRows(rows) == {i \in 1..Len(rows) : rows[i].id > Len(prior)}
Min(a, b) == IF a < b THEN a ELSE b

\* C7: when store_data completes without a failure the table holds exactly one
\* row per anonymized record and no row from before the run; the old rows are
\* gone before the first new row is there; the rows arrive in consecutive
\* batches of at most chunk_size records, each committed.
C7_FullRefresh ==
    /\ store_result = "ok" =>
          /\ Records(persons) = anonymized_data
          /\ OldRows(persons) = {}
    /\ NewRows(persons) # {} => OldRows(persons) = {}
    /\ store_at \in {"write", "closed"} =>
          /\ Len(persons) = Min(nwrites * chunk_size, Len(anonymized_data))
          /\ Records(persons) = SubSeq(anonymized_data, 1, Len(persons))
          /\ ncommits = nwrites + 1

\* a table with rows of an earlier run is replaced by three records written
\* as a batch of two and a batch of one
C7_Witness ==
    /\ store_result = "ok"
    /\ prior # <<>>
    /\ Len(anonymized_data) = 3
    /\ chunk_size = 2
    /\ nwrites = 2
    /\ Len(persons) = 3

\* C8: a failure of store_data, at any of its statements, never reaches the
\* pipeline as an exception, and profile_data is then called on the same
\* anonymized set as after a successful store.
C8_ProfileRunsAfterStore ==
    /\ store_result # "raised"
    /\ (store_result = "failed" /\ caught) => fault_at = "log"
    /\ (store_result \in {"ok", "failed"} /\ pc \in {"log", "return", "done"}) =>
          /\ profiled
          /\ profile_arg = anonymized_data
          /\ data_profile = profile_data(anonymized_data)

\* the second batch fails to write; the run still ends with a profile of the
\* three anonymized records
C8_Witness ==
    /\ pc = "done"
    /\ store_result = "failed"
    /\ store_fail = "write"
    /\ nwrites = 1
    /\ Len(anonymized_data) = 3
    /\ profiled
    /\ data_profile["total_records"] = 3

\* C9: when a stage raises a fault it does not isolate, process_pipeline
\* catches it, runs no later stage, does not propagate it, and reports a
\* non-zero outcome to the caller, unlike a run in which every stage succeeds.
C9_FaultGivesNonZeroOutcome ==
    (pc = "done" /\ caught) =>
        /\ fault_at \in FaultStages
        /\ fault_at # "log" => (store_result = "none" /\ ~profiled)
        /\ exit_code # 0

AllValidDistinctAnonymizable(data) ==
    /\ \A i \in 1..Len(data) : item_is_valid(data[i]) /\ anonymizable(data[i])
    /\ \A i, j \in 1..Len(data) : i # j => row_repr(data[i]) # row_repr(data[j])

\* C10: for a fetched batch of n >= 0 records, all valid, pairwise
\* non-duplicate and anonymizable, and no persistence failure, one run leaves
\* exactly n rows in persons and a profile whose total_records is n.
C10_EndToEnd ==
    (pc = "done" /\ ~caught /\ store_result = "ok" /\ AllValidDistinctAnonymizable(raw_data)) =>
        /\ Len(persons) = Len(raw_data)
        /\ "total_records" \in DOMAIN data_profile
        /\ data_profile["total_records"] = Len(raw_data)

---------------------------------------------------------------------------
(* Claims about fetch_data and fetch_data_chunk (checked under SpecFetch)  *)

RECURSIVE Concat(_)
Concat(seqs) == IF seqs = <<>> THEN <<>> ELSE Head(seqs) \o Concat(Tail(seqs))

\* the orders of a set of chunks
Orders(set) ==
    {o \in [1..Cardinality(set) -> set] : \A a, b \in 1..Cardinality(set) : a # b => o[a] # o[b]}

\* a chunk succeeded when the source answered with a body of the agreed shape
Succeeded == {i \in 1..Len(futures) : futures[i].outcome = "ok"}

\* C1: whatever the interleaving and whichever chunks fail, fetch_data returns
\* the concatenation, in some chunk order, of the records of the chunks that
\* succeeded; a failed chunk contributes nothing, no record is lost or
\* duplicated, and each chunk's records stay together and in order.
C1_FetchReturnsTheSucceededChunks ==
    fpc = "returned" =>
        \E o \in Orders(Succeeded) :
            all_data = Concat([k \in 1..Len(o) |-> served(o[k], futures[o[k]].quantity)])

\* the least k with k * size >= total
CeilDiv(total, size) == CHOOSE k \in 0..total : k * size >= total /\ \A j \in 0..(k - 1) : j * size < total

RECURSIVE SumQuantities(_)
SumQuantities(n) == IF n = 0 THEN 0 ELSE SumQuantities(n - 1) + futures[n].quantity

\* C2: for total_quantity >= 1 and chunk_size >= 1, fetch_data dispatches
\* ceil(total_quantity / chunk_size) requests; all but the last ask for
\* chunk_size records, the last for the remainder (chunk_size when it divides
\* total_quantity), every quantity is in 1..chunk_size and they sum to
\* total_quantity.
C2_ChunkPartition ==
    (fpc \in {"collect", "returned"} /\ total_quantity >= 1) =>
        LET n == Len(futures)
        IN /\ n = CeilDiv(total_quantity, chunk_size)
           /\ \A i \in 1..(n - 1) : futures[i].quantity = chunk_size
           /\ futures[n].quantity =
                IF total_quantity % chunk_size = 0 THEN chunk_size
                ELSE total_quantity % chunk_size
           /\ \A i \in 1..n : futures[i].quantity \in 1..chunk_size
           /\ SumQuantities(n) = total_quantity

\* seven records in chunks of three: requests for three, three and one
C2_Witness ==
    /\ fpc = "collect"
    /\ total_quantity = 7
    /\ chunk_size = 3
    /\ Len(futures) = 3
    /\ futures[1].quantity = 3
    /\ futures[2].quantity = 3
    /\ futures[3].quantity = 1

\* C3: fetch_data_chunk never raises: when the retries are exhausted, on a
\* non-transient HTTP error, on a connection failure and on a body that is not
\* a JSON object with a `data` array, it returns the empty list.
C3_ChunkNeverRaises ==
    \A i \in 1..Len(futures) :
        (futures[i].state = "finished" /\ futures[i].outcome # "ok") =>
            /\ ~futures[i].result.raised
            /\ futures[i].result.kind = "list"
            /\ futures[i].result.items = <<>>

\* C11: clean_data is idempotent: for every sequence of valid records,
\* cleaning the cleaned records again gives the same records, record for
\* record, and clean_data leaves the records of its input unmodified.
C11_CleanIsIdempotent ==
    [][/\ (pc = "validated" /\ pc' = "cleaned") => valid_data' = valid_data
       /\ (pc = "cleaned" /\ pc' = "recleaned") => cleaned_data' = cleaned_data]_vars

\* every dispatched chunk has ended and its result has been taken
AllChunksTerminal ==
    /\ Len(futures) = num_chunks(total_quantity, chunk_size)
    /\ \A i \in 1..Len(futures) :
            futures[i].state = "finished" /\ futures[i].outcome # "none" /\ futures[i].collected

\* C12: no cancellation or short-circuit: provided every chunk request
\* eventually ends, fetch_data eventually returns; when it returns every
\* dispatched chunk is in a terminal state (none pending or running), and
\* no chunk's result arrives after the return, whichever chunks failed.
C12_FetchWaitsForEveryChunk ==
    /\ <>(fpc = "returned")
    /\ [](fpc = "returned" => AllChunksTerminal)
    /\ [][fpc = "returned" => (futures' = futures /\ all_data' = all_data)]_vars

\* two chunks, the first failed after its retries, the second succeeded
C12_Witness ==
    /\ fpc = "returned"
    /\ Len(futures) = 2
    /\ futures[1].outcome = "retry_error"
    /\ futures[1].attempt = Retries
    /\ futures[2].outcome = "ok"
    /\ all_data = served(2, 1)

\* C13: when the write of batch k fails, store_data does not raise, no batch
\* after k is written, the table holds exactly the rows of batches 1..k-1 of
\* this run (a prefix of the new set in whole batches), and no row from
\* before the run remains.
C13_PartialPersistOnFailure ==
    store_fail = "write" =>
        LET k == nwrites + 1
        IN /\ store_result = "failed"
           /\ pc \in {"profile", "log", "return", "done"}
           /\ (k - 1) * chunk_size < Len(anonymized_data)
           /\ Len(persons) = (k - 1) * chunk_size
           /\ Records(persons) = SubSeq(anonymized_data, 1, (k - 1) * chunk_size)
           /\ OldRows(persons) = {}
           /\ ncommits = k

\* a table with a row of an earlier run; the first batch of two records is
\* committed and the write of the second batch fails
C13_Witness ==
    /\ store_fail = "write"
    /\ prior # <<>>
    /\ chunk_size = 2
    /\ Len(anonymized_data) = 3
    /\ nwrites = 1
    /\ Len(persons) = 2
    /\ pc = "done"

\* the top-level fields but id and address: the same names, with equal values
SameTopLevelFields(a, b) ==
    /\ (DOMAIN a) \ {"id", "address"} = (DOMAIN b) \ {"id", "address"}
    /\ \A k \in (DOMAIN a) \ {"id", "address"} : a[k] = b[k]

\* the address fields: the same names, with equal values
SameAddressFields(a, b) ==
    /\ DOMAIN a["address"].m = DOMAIN b["address"].m
    /\ \A k \in DOMAIN a["address"].m : a["address"].m[k] = b["address"].m[k]

\* C14: duplicate soundness: whenever detect_duplicates places a record in
\* duplicates, an earlier record, which is in unique, has the same top-level
\* field names (id and address aside) with equal values and the same address
\* field names with equal values; the canonical key never makes two records
\* that differ in such a field compare equal.
C14_DuplicatesAreEqualRecords ==
    DedupReturned =>
        \A d \in 1..Len(duplicates) :
            \E u \in 1..Len(unique_data) :
                /\ \E i, j \in 1..Len(DedupInput) :
                        i < j /\ DedupInput[i] = unique_data[u] /\ DedupInput[j] = duplicates[d]
                /\ SameTopLevelFields(unique_data[u], duplicates[d])
                /\ SameAddressFields(unique_data[u], duplicates[d])

=============================================================================
